---- MODULE Spec2Model ----
(***************************************************************************)
(* CopyNet (src/modules/models/copynet.py): the forward pass of the model, *)
(* its training loop and the per-timestep log-likelihood contribution.     *)
(*                                                                         *)
(* Tensors are functions over 0-based index ranges, as in the source.      *)
(* Real numbers are represented exactly:                                   *)
(*   - a score is an integer in 0..MaxScore (softmax is shift invariant);  *)
(*   - exp is the strictly increasing map x |-> 2^x, kept as an integer in *)
(*     units of 2^(-MaxScore), so that exp(0) = ExpUnit and nothing        *)
(*     underflows inside the bounds;                                       *)
(*   - a probability is a pair <<numerator, denominator>>;                 *)
(*   - a value in log space is the bag of the ratios whose logarithms it   *)
(*     sums: log(a/b) is the bag {<<a,b>>}, 0 is the empty bag and + is    *)
(*     bag union.                                                          *)
(* The layers are small integer maps whose outputs are clipped to the      *)
(* score range.  Spec is the whole forward call on a batch.  SpecLL starts *)
(* at the likelihood computation of a one-instance batch with the scores   *)
(* that output layers of any weights can produce.                          *)
(***************************************************************************)
EXTENDS Bags, FiniteSets, Integers, Sequences, TLC

\* ---------------------------------------------------------------- bounds
MaxBatch == 2
MaxTgtLen == 4
MaxSrcLen == 4
MaxScore == 1
MaxHidden == 1

\* ------------------------------------------- vocabulary (CopyNet.__init__)
oov_index == 1
start_index == 2
end_index == 3
copy_index == 5
src_start_index == 2
src_end_index == 3

target_vocab_size == copy_index + 1

Vocab == 0 .. (target_vocab_size - 1)

\* The sentences are made of one word.  Its index in the source namespace:
source_word == src_end_index + 1

\* Its index in the target namespace: the word is in the vocabulary, or it
\* is not and get_token_index gives the OOV index.
TargetWordIndices == {end_index + 1, oov_index}

\* ---------------------------------------------------------------- helpers
Idx(n) == 0 .. (n - 1)

Range(f) == {f[i] : i \in DOMAIN f}

RECURSIVE SumTo(_, _)
SumTo(f, n) == IF n = 0 THEN 0 ELSE f[n - 1] + SumTo(f, n - 1)

\* tensor.sum(-1) of a vector indexed 0..n-1
Sum(f) == SumTo(f, Cardinality(DOMAIN f))

Max(S) == CHOOSE m \in S : \A x \in S : x <= m

RECURSIVE Pow2(_)
Pow2(n) == IF n = 0 THEN 1 ELSE 2 * Pow2(n - 1)

ExpUnit == Pow2(MaxScore)

\* tensor.exp() of a shifted score x in -MaxScore..0
Exp(x) == Pow2(MaxScore + x)

\* log(a/b) as a value in log space
Log(a, b) == SetToBag({<<a, b>>})

\* Sum of the log-space values v[0], ..., v[n-1]
RECURSIVE LogSumTo(_, _)
LogSumTo(v, n) == IF n = 0 THEN EmptyBag ELSE v[n - 1] (+) LogSumTo(v, n - 1)

LogSum(v) == LogSumTo(v, Cardinality(DOMAIN v))

\* ------------------------------------------------- CopyNet._get_ll_contrib
\* max over cat((generation_scores, copy_scores), -1)
max_score(generation_scores, copy_scores) ==
    [b \in DOMAIN generation_scores |->
        Max(Range(generation_scores[b]) \cup Range(copy_scores[b]))]

stable_gen_exp_scores(generation_scores, max) ==
    [b \in DOMAIN generation_scores |->
        [i \in DOMAIN generation_scores[b] |-> Exp(generation_scores[b][i] - max[b])]]

stable_copy_exp_scores(copy_scores, max, copy_mask) ==
    [b \in DOMAIN copy_scores |->
        [j \in DOMAIN copy_scores[b] |->
            Exp(copy_scores[b][j] - max[b]) * copy_mask[b][j]]]

GenMaskAnd(step_target_tokens, step_source_indices) ==
    [b \in DOMAIN step_target_tokens |->
        IF step_target_tokens[b] # oov_index /\ Sum(step_source_indices[b]) = 0
        THEN 1 ELSE 0]

gen_mask(step_target_tokens, step_source_indices) ==
    [b \in DOMAIN step_target_tokens |->
        IF step_target_tokens[b] # oov_index \/ Sum(step_source_indices[b]) = 0
        THEN 1 ELSE 0]

stable_gen_exp(gen_exp, step_target_tokens, mask) ==
    [b \in DOMAIN gen_exp |-> gen_exp[b][step_target_tokens[b]] * mask[b]]

FilteredNoIndices(copy_exp, step_source_indices) == copy_exp

stable_copy_exp_scores_filtered(copy_exp, step_source_indices) ==
    [b \in DOMAIN copy_exp |->
        [j \in DOMAIN copy_exp[b] |-> copy_exp[b][j] * step_source_indices[b][j]]]

stable_copy_exp(filtered) == [b \in DOMAIN filtered |-> Sum(filtered[b])]

NormalizationGenOnly(gen_exp, copy_exp) == [b \in DOMAIN gen_exp |-> Sum(gen_exp[b])]

\* The argument of the logarithm: normalization = log(this / ExpUnit).
normalization(gen_exp, copy_exp) ==
    [b \in DOMAIN gen_exp |-> Sum(gen_exp[b]) + Sum(copy_exp[b])]

\* (filtered.log() - normalization).exp(): the ratio filtered / normalization
selective_weights_of(filtered, norm) ==
    [b \in DOMAIN filtered |->
        [j \in DOMAIN filtered[b] |-> <<filtered[b][j], norm[b]>>]]

\* (stable_gen_exp + stable_copy_exp).log() - normalization
step_log_likelihood(gen_part, copy_part, norm) ==
    [b \in DOMAIN gen_part |-> Log(gen_part[b] + copy_part[b], norm[b])]

\* The local variables of one call, returned as a record; the call's results
\* are the fields step_log_likelihood and selective_weights.
get_ll_contrib(gen_scores, cp_scores, step_tokens, step_indices, cp_mask) ==
    LET max == max_score(gen_scores, cp_scores)
        gen_exp == stable_gen_exp_scores(gen_scores, max)
        copy_exp == stable_copy_exp_scores(cp_scores, max, cp_mask)
        mask == gen_mask(step_tokens, step_indices)
        gen_part == stable_gen_exp(gen_exp, step_tokens, mask)
        filtered == stable_copy_exp_scores_filtered(copy_exp, step_indices)
        copy_part == stable_copy_exp(filtered)
        norm == normalization(gen_exp, copy_exp)
    IN  [max_score |-> max,
         stable_gen_exp_scores |-> gen_exp,
         stable_copy_exp_scores |-> copy_exp,
         gen_mask |-> mask,
         stable_gen_exp |-> gen_part,
         stable_copy_exp_scores_filtered |-> filtered,
         stable_copy_exp |-> copy_part,
         normalization |-> norm,
         selective_weights |-> selective_weights_of(filtered, norm),
         step_log_likelihood |-> step_log_likelihood(gen_part, copy_part, norm)]

\* ------------------------------------------------ the inputs of forward
\* A tokenized sentence of n tokens padded to length len, in source-namespace
\* indices: START, n - 2 words, END, then padding (index 0).
TextRow(len, n) ==
    [p \in Idx(len) |->
        IF p >= n THEN 0
        ELSE IF p = 0 THEN src_start_index
        ELSE IF p = n - 1 THEN src_end_index
        ELSE source_word]

TextRows(len) ==
    {TextRow(len, n) : n \in (IF len < 2 THEN len ELSE 2) .. len}

\* A batch of B sentences as the data iterator pads it: to the length of its
\* longest sentence.
TextBatches(B, len) ==
    {batch \in [Idx(B) -> TextRows(len)] : \E b \in Idx(B) : batch[b][len - 1] # 0}

\* Target-namespace index of a token of a target sentence.
TargetIndexOf(tok, word_index) ==
    IF tok = 0 THEN 0
    ELSE IF tok = src_start_index THEN start_index
    ELSE IF tok = src_end_index THEN end_index
    ELSE word_index

\* forward's source_indices argument: for each target token, a 1 at every
\* trimmed source position (source position j + 1) that holds the same word.
SourceIndices(source, target_text) ==
    [b \in DOMAIN source |->
        [t \in DOMAIN target_text[b] |->
            [j \in Idx(Cardinality(DOMAIN source[b]) - 2) |->
                IF target_text[b][t] > src_end_index
                   /\ source[b][j + 1] = target_text[b][t]
                THEN 1 ELSE 0]]]

\* -------------------------------------------------------------- the network
\* A layer output, kept inside the score range.
Clip(x) == IF x > MaxScore THEN MaxScore ELSE x

\* util.get_text_field_mask
get_text_field_mask(tokens) ==
    [b \in DOMAIN tokens |-> [p \in DOMAIN tokens[b] |-> IF tokens[b][p] # 0 THEN 1 ELSE 0]]

\* self._encoder(self._source_embedder(source_tokens), source_mask): one
\* feature per position, zero at the padded positions.
encoder(tokens, source_mask) ==
    [b \in DOMAIN tokens |-> [p \in DOMAIN tokens[b] |-> tokens[b][p] * source_mask[b][p]]]

\* util.get_final_encoder_states: the output at the last unmasked position.
get_final_encoder_states(encoder_outputs, source_mask) ==
    [b \in DOMAIN encoder_outputs |->
        IF Sum(source_mask[b]) = 0 THEN 0
        ELSE encoder_outputs[b][Sum(source_mask[b]) - 1]]

init_encoded_state(tokens) ==
    LET source_mask == get_text_field_mask(tokens)
        encoder_outputs == encoder(tokens, source_mask)
    IN  [source_mask |-> source_mask,
         encoder_outputs |-> encoder_outputs,
         decoder_hidden |-> get_final_encoder_states(encoder_outputs, source_mask),
         decoder_context |-> [b \in DOMAIN tokens |-> 0]]

\* encoder_outputs[:, 1:-1]
Trimmed(x) ==
    [b \in DOMAIN x |-> [j \in Idx(Cardinality(DOMAIN x[b]) - 2) |-> x[b][j + 1]]]

\* util.weighted_sum over the positions of each instance, weights as integers
weighted_sum(matrix, attention) ==
    [b \in DOMAIN matrix |->
        Sum([p \in DOMAIN matrix[b] |-> matrix[b][p] * attention[b][p]])]

\* The numerators of the selective weights (one instance's weights share
\* their denominator).
Numerators(selective) ==
    [b \in DOMAIN selective |-> [j \in DOMAIN selective[b] |-> selective[b][j][1]]]

decoder_step(last_predictions, selective, st) ==
    LET embedded_input == last_predictions
        attentive_read == weighted_sum(st.encoder_outputs, st.source_mask)
        selective_read == weighted_sum(Trimmed(st.encoder_outputs), Numerators(selective))
        \* self._input_projection_layer
        decoder_input == [b \in DOMAIN last_predictions |->
                             st.decoder_hidden[b] + embedded_input[b]
                             + attentive_read[b] + selective_read[b]]
    IN  [st EXCEPT
           !.decoder_hidden = [b \in DOMAIN last_predictions |->
                                  decoder_input[b] % (MaxHidden + 1)],
           !.decoder_context = [b \in DOMAIN last_predictions |->
                                  (decoder_input[b] + st.decoder_context[b]) % (MaxHidden + 1)]]

\* self._output_generation_layer: weight i % 2 and bias (i \div 2) % 2 for
\* vocabulary entry i.
get_generation_scores(st) ==
    [b \in DOMAIN st.decoder_hidden |->
        [i \in Vocab |->
            Clip((i % 2) * st.decoder_hidden[b] + ((i \div 2) % 2))]]

get_copy_scores(st) ==
    LET trimmed_encoder_outputs == Trimmed(st.encoder_outputs)
        \* tanh(self._output_copying_layer(trimmed_encoder_outputs))
        copy_projection == [b \in DOMAIN trimmed_encoder_outputs |->
                              [j \in DOMAIN trimmed_encoder_outputs[b] |->
                                  (trimmed_encoder_outputs[b][j] + j) % (MaxScore + 1)]]
    IN  [b \in DOMAIN st.decoder_hidden |->
            [j \in DOMAIN trimmed_encoder_outputs[b] |->
                Clip(copy_projection[b][j] * st.decoder_hidden[b])]]

\* ------------------------------------------------------------------ state
VARIABLES
    pc,                 \* position of the current call
    call,               \* the method called: "none", "forward" or "decode"
    exception,          \* the exception the call raised, "" if none
    output,             \* the dictionary the call returned
    source_tokens,      \* forward's arguments
    target_arg,         \* target_tokens is "None", "empty" (a dict) or "dict"
    target_tokens,
    source_indices,
    state,              \* the state dictionary of the decoder
    timestep,           \* locals of _forward_train
    input_choices,
    copy_mask,
    selective_weights,
    log_likelihood,
    generation_scores,
    copy_scores,
    ll_locals,          \* locals of the last _get_ll_contrib call
    trace,              \* history: the calls made, with their arguments
    reads               \* history: the time indices read from the inputs

vars == <<pc, call, exception, output, source_tokens, target_arg, target_tokens,
          source_indices, state, timestep, input_choices, copy_mask,
          selective_weights, log_likelihood, generation_scores, copy_scores,
          ll_locals, trace, reads>>

loop_vars == <<timestep, input_choices, copy_mask, selective_weights,
               log_likelihood, generation_scores, copy_scores, ll_locals>>

arg_vars == <<source_tokens, target_arg, target_tokens, source_indices>>

\* `if target_tokens:`
Truthy == target_arg = "dict"

batch_size == Cardinality(DOMAIN target_tokens.tokens)

target_sequence_length == Cardinality(DOMAIN target_tokens.tokens[0])

NumDecodingStepsShort(length) == length - 2

num_decoding_steps(length) == length - 1

Init ==
    /\ pc = "idle"
    /\ call = "none"
    /\ exception = ""
    /\ output = <<>>
    /\ source_tokens = <<>>
    /\ target_arg = "None"
    /\ target_tokens = <<>>
    /\ source_indices = <<>>
    /\ state = <<>>
    /\ timestep = 0
    /\ input_choices = <<>>
    /\ copy_mask = <<>>
    /\ selective_weights = <<>>
    /\ log_likelihood = <<>>
    /\ generation_scores = <<>>
    /\ copy_scores = <<>>
    /\ ll_locals = <<>>
    /\ trace = <<>>
    /\ reads = {}

\* ---------------------------------------------------------- CopyNet.forward
\* forward(source_tokens, target_tokens, source_indices), up to the test of
\* target_tokens: the call and _init_encoded_state.
Forward ==
    /\ pc = "idle"
    /\ \E B \in 1 .. MaxBatch, L \in 2 .. MaxSrcLen :
         \E source \in TextBatches(B, L) :
            /\ source_tokens' = source
            /\ state' = init_encoded_state(source)
            /\ \/ /\ target_arg' \in {"None", "empty"}
                  /\ target_tokens' = <<>>
                  /\ source_indices' = <<>>
               \/ \E T \in 1 .. MaxTgtLen, word_index \in TargetWordIndices :
                     \E target_text \in TextBatches(B, T) :
                        /\ target_arg' = "dict"
                        /\ target_tokens' =
                             [tokens |-> [b \in Idx(B) |->
                                 [t \in Idx(T) |-> TargetIndexOf(target_text[b][t], word_index)]]]
                        /\ source_indices' = SourceIndices(source, target_text)
    /\ call' = "forward"
    /\ pc' = "encoded"
    /\ trace' = Append(trace, [op |-> "init_encoded_state"])
    /\ UNCHANGED <<exception, output, loop_vars, reads>>

\* `return self._forward_predict(state)`
ForwardPredict ==
    /\ pc = "encoded"
    /\ ~Truthy
    /\ pc' = "raised"
    /\ exception' = "NotImplementedError"
    /\ trace' = Append(trace, [op |-> "forward_predict"])
    /\ UNCHANGED <<call, output, arg_vars, state, loop_vars, reads>>

\* CopyNet.decode(output_dict)
Decode ==
    /\ pc \in {"idle", "returned"}
    /\ call' = "decode"
    /\ pc' = "raised"
    /\ exception' = "NotImplementedError"
    /\ UNCHANGED <<output, arg_vars, state, loop_vars, trace, reads>>

\* ---------------------------------------------------- CopyNet._forward_train
\* source_mask[:, 1:-1].float()
copy_mask_of(source_mask) == Trimmed(source_mask)

\* The body of _forward_train before its loop.
ForwardTrain ==
    /\ pc = "encoded"
    /\ Truthy
    /\ input_choices' = [b \in Idx(batch_size) |-> start_index]
    /\ copy_mask' = copy_mask_of(state.source_mask)
    /\ selective_weights' = [b \in Idx(batch_size) |->
                               [j \in DOMAIN copy_mask'[b] |-> <<0, 1>>]]
    /\ log_likelihood' = [b \in Idx(batch_size) |-> EmptyBag]
    /\ timestep' = 0
    /\ pc' = "loop"
    /\ trace' = Append(trace, [op |-> "forward_train"])
    /\ UNCHANGED <<call, exception, output, arg_vars, state, generation_scores,
                   copy_scores, ll_locals, reads>>

\* The decoder input of timestep t: the target token, or the copy token
\* when the token was copied and t is not the last step.
input_choices_of(tokens, indices, t, steps) ==
    [b \in DOMAIN tokens |->
        IF t < steps - 1
        THEN LET copied == IF Sum(indices[b][t]) > 0 THEN 1 ELSE 0
             IN  tokens[b][t] * (1 - copied) + copy_index * copied
        ELSE tokens[b][t]]

\* Loop body, first part: the input choices and self._decoder_step.
DecoderStep ==
    /\ pc = "loop"
    /\ timestep < num_decoding_steps(target_sequence_length)
    /\ LET steps == num_decoding_steps(target_sequence_length)
           choices == input_choices_of(target_tokens.tokens, source_indices,
                                       timestep, steps)
       IN  /\ input_choices' = choices
           /\ state' = decoder_step(choices, selective_weights, state)
           /\ trace' = Append(trace, [op |-> "decoder_step",
                                      timestep |-> timestep,
                                      token |-> timestep,
                                      last_predictions |-> choices,
                                      selective_weights |-> selective_weights])
           /\ reads' = reads \cup {<<"target_tokens", timestep>>}
                             \cup (IF timestep < steps - 1
                                   THEN {<<"source_indices", timestep>>} ELSE {})
    /\ pc' = "generation"
    /\ UNCHANGED <<call, exception, output, arg_vars, timestep, copy_mask,
                   selective_weights, log_likelihood, generation_scores,
                   copy_scores, ll_locals>>

GetGenerationScores ==
    /\ pc = "generation"
    /\ generation_scores' = get_generation_scores(state)
    /\ pc' = "copy"
    /\ trace' = Append(trace, [op |-> "get_generation_scores", timestep |-> timestep])
    /\ UNCHANGED <<call, exception, output, arg_vars, state, timestep, input_choices,
                   copy_mask, selective_weights, log_likelihood, copy_scores,
                   ll_locals, reads>>

GetCopyScores ==
    /\ pc = "copy"
    /\ copy_scores' = get_copy_scores(state)
    /\ pc' = "ll_contrib"
    /\ trace' = Append(trace, [op |-> "get_copy_scores", timestep |-> timestep])
    /\ UNCHANGED <<call, exception, output, arg_vars, state, timestep, input_choices,
                   copy_mask, selective_weights, log_likelihood, generation_scores,
                   ll_locals, reads>>

\* log_likelihood + step_log_likelihood
accumulate(total, step) == [b \in DOMAIN total |-> total[b] (+) step[b]]

\* Loop body, last part: self._get_ll_contrib for target token timestep + 1.
GetLLContrib ==
    /\ pc = "ll_contrib"
    /\ LET step_target_tokens == [b \in Idx(batch_size) |->
                                     target_tokens.tokens[b][timestep + 1]]
           step_source_indices == [b \in Idx(batch_size) |->
                                     source_indices[b][timestep + 1]]
           r == get_ll_contrib(generation_scores, copy_scores, step_target_tokens,
                               step_source_indices, copy_mask)
       IN  /\ ll_locals' = r
           /\ selective_weights' = r.selective_weights
           /\ log_likelihood' = accumulate(log_likelihood, r.step_log_likelihood)
           /\ trace' = Append(trace, [op |-> "get_ll_contrib",
                                      timestep |-> timestep,
                                      token |-> timestep + 1,
                                      step_target_tokens |-> step_target_tokens,
                                      step_source_indices |-> step_source_indices,
                                      step_log_likelihood |-> r.step_log_likelihood,
                                      selective_weights |-> r.selective_weights])
    /\ reads' = reads \cup {<<"target_tokens", timestep + 1>>,
                            <<"source_indices", timestep + 1>>}
    /\ timestep' = timestep + 1
    /\ pc' = "loop"
    /\ UNCHANGED <<call, exception, output, arg_vars, state, input_choices, copy_mask,
                   generation_scores, copy_scores>>

LossNoDivision(total, size) == [minus |-> LogSum(total), over |-> 1]

\* - log_likelihood.sum() / batch_size
loss_of(total, size) == [minus |-> LogSum(total), over |-> size]

\* The end of the loop: the loss and the returned dictionary.
Return ==
    /\ pc = "loop"
    /\ timestep >= num_decoding_steps(target_sequence_length)
    /\ output' = [loss |-> loss_of(log_likelihood, batch_size)]
    /\ pc' = "returned"
    /\ UNCHANGED <<call, exception, arg_vars, state, loop_vars, trace, reads>>

Next ==
    \/ Forward
    \/ ForwardPredict
    \/ Decode
    \/ ForwardTrain
    \/ DecoderStep
    \/ GetGenerationScores
    \/ GetCopyScores
    \/ GetLLContrib
    \/ Return

Spec == Init /\ [][Next]_vars

\* ------------------------------------------------------------------ SpecLL
\* The first likelihood computation of a one-instance batch whose target has
\* two tokens and whose source is padded to any length (explicit padding
\* lengths), for output layers of arbitrary weights: the state of
\* _forward_train at its call of _get_ll_contrib, with the combinations of
\* generation scores, copy scores, copy mask and source indices.  The target
\* token is the OOV token or a token of the vocabulary.  The generation score
\* of the target token is arbitrary; the scores of the other entries of the
\* vocabulary, which the computation only sums and maximizes over, are taken
\* in non-decreasing order of their index.
InitLL ==
    /\ pc = "ll_contrib"
    /\ call = "forward"
    /\ exception = ""
    /\ output = <<>>
    /\ target_arg = "dict"
    /\ timestep = 0
    /\ ll_locals = <<>>
    /\ reads = {<<"target_tokens", 0>>}
    /\ \E L \in 2 .. MaxSrcLen, n \in 2 .. MaxSrcLen :
        LET source == [b \in Idx(1) |-> TextRow(L, n)]
            encoded == init_encoded_state(source)
            zeros == [b \in Idx(1) |-> [j \in Idx(L - 2) |-> <<0, 1>>]]
            first == [b \in Idx(1) |-> start_index]
        IN  /\ n <= L
            /\ source_tokens = source
            /\ state = decoder_step(first, zeros, encoded)
            /\ input_choices = first
            /\ copy_mask = copy_mask_of(encoded.source_mask)
            /\ selective_weights = zeros
            /\ log_likelihood = [b \in Idx(1) |-> EmptyBag]
            /\ trace = <<[op |-> "init_encoded_state"],
                         [op |-> "forward_train"],
                         [op |-> "decoder_step", timestep |-> 0, token |-> 0,
                          last_predictions |-> first, selective_weights |-> zeros],
                         [op |-> "get_generation_scores", timestep |-> 0],
                         [op |-> "get_copy_scores", timestep |-> 0]>>
            /\ \E tok \in {oov_index, end_index} :
                 /\ target_tokens = [tokens |-> [b \in Idx(1) |->
                                        [t \in Idx(2) |-> IF t = 0 THEN start_index ELSE tok]]]
                 /\ \E gen \in [Vocab -> 0 .. MaxScore] :
                      /\ \A i, k \in Vocab \ {tok} : i < k => gen[i] <= gen[k]
                      /\ generation_scores = [b \in Idx(1) |-> gen]
            /\ \E ind \in [Idx(L - 2) -> {0, 1}] :
                 source_indices = [b \in Idx(1) |->
                                      [t \in Idx(2) |->
                                         IF t = 0 THEN [j \in Idx(L - 2) |-> 0] ELSE ind]]
            /\ \E copy \in [Idx(L - 2) -> 0 .. MaxScore] :
                 copy_scores = [b \in Idx(1) |-> copy]

NextLL ==
    \/ GetLLContrib
    \/ Return

SpecLL == InitLL /\ [][NextLL]_vars

\* ================================================================ claims
\* A likelihood contribution has been computed and its scores are still the
\* current ones.
AfterLLContrib == pc \in {"loop", "returned"} /\ timestep > 0

\* The loss has been returned by _forward_train.
TrainReturned == "loss" \in DOMAIN output

\* _forward_train has started.
TrainStarted == Len(trace) >= 2 /\ trace[2].op = "forward_train"

\* Product of component k of the ratios of a log-space value.
RECURSIVE BagProd(_, _)
BagProd(bag, k) ==
    IF BagToSet(bag) = {} THEN 1
    ELSE LET e == CHOOSE x \in BagToSet(bag) : TRUE
         IN  e[k] * BagProd(bag (-) SetToBag({e}), k)

\* The shifted score of a raw score
Shifted(score, b) == score - ll_locals.max_score[b]

\* Sum of exp(shifted score) over the vocabulary entries in the set I
GenExpSum(b, I) ==
    Sum([i \in Vocab |-> IF i \in I THEN Exp(Shifted(generation_scores[b][i], b)) ELSE 0])

\* Sum of exp(shifted score) over the trimmed source positions in the set J
CopyExpSum(b, J) ==
    Sum([j \in DOMAIN copy_scores[b] |->
            IF j \in J THEN Exp(Shifted(copy_scores[b][j], b)) ELSE 0])

Unmasked(b) == {j \in DOMAIN copy_mask[b] : copy_mask[b][j] = 1}

\* C1: at a decoding step, for every instance, the normalizer is the sum of
\* exp over ALL vocabulary entries plus exp over the source positions with
\* copy_mask = 1; the numerator is the sum over a subset of those terms (the
\* target token's entry if gen_mask = 1, the unmasked positions with
\* source_indices = 1), so the step probability is at most 1, and the
\* returned loss is >= 0.
C1_SharedNormalization ==
    AfterLLContrib =>
        /\ \A b \in DOMAIN generation_scores :
             LET tok == target_tokens.tokens[b][timestep]
                 ind == source_indices[b][timestep]
                 GenTerms == IF ll_locals.gen_mask[b] = 1 THEN {tok} ELSE {}
                 CopyTerms == {j \in Unmasked(b) : ind[j] = 1}
                 Normalizer == GenExpSum(b, Vocab) + CopyExpSum(b, Unmasked(b))
                 Numerator == GenExpSum(b, GenTerms) + CopyExpSum(b, CopyTerms)
             IN  /\ ll_locals.normalization[b] = Normalizer
                 /\ ll_locals.step_log_likelihood[b] = Log(Numerator, Normalizer)
                 /\ GenTerms \subseteq Vocab
                 /\ Numerator <= Normalizer
        /\ TrainReturned => BagProd(output.loss.minus, 1) <= BagProd(output.loss.minus, 2)

\* C1 witness: a returned loss whose step had a generation term and a copy
\* term in the numerator and a masked source position outside the normalizer.
C1_Witness ==
    /\ TrainReturned
    /\ timestep > 0
    /\ ll_locals.gen_mask[0] = 1
    /\ ll_locals.stable_copy_exp[0] > 0
    /\ \E j \in DOMAIN copy_mask[0] : copy_mask[0][j] = 0

\* C2: after subtracting max_score every shifted score is <= 0 and at least
\* one term that is summed into the normalization has shifted score exactly
\* 0, so the normalization sum is >= 1, for every combination of scores and
\* copy_mask.
C2_StableNormalization ==
    AfterLLContrib =>
        \A b \in DOMAIN generation_scores :
            /\ \A i \in Vocab : Shifted(generation_scores[b][i], b) <= 0
            /\ \A j \in DOMAIN copy_scores[b] : Shifted(copy_scores[b][j], b) <= 0
            /\ \/ \E i \in Vocab : Shifted(generation_scores[b][i], b) = 0
               \/ \E j \in Unmasked(b) : Shifted(copy_scores[b][j], b) = 0
            /\ ll_locals.normalization[b] >= ExpUnit

\* C8: the target token's generation score enters the numerator iff the
\* token is not the OOV token or does not occur in the source; otherwise the
\* numerator consists of the copy terms only.
C8_GenerationMask ==
    AfterLLContrib =>
        \A b \in DOMAIN generation_scores :
            LET tok == target_tokens.tokens[b][timestep]
                ind == source_indices[b][timestep]
                InVocabOrNotInSource == tok # oov_index \/ Sum(ind) = 0
                CopyTerms == CopyExpSum(b, {j \in Unmasked(b) : ind[j] # 0})
            IN  /\ (ll_locals.stable_gen_exp[b] > 0) <=> InVocabOrNotInSource
                /\ ll_locals.step_log_likelihood[b] =
                      Log((IF InVocabOrNotInSource THEN GenExpSum(b, {tok}) ELSE 0)
                          + CopyTerms, ll_locals.normalization[b])

\* C8 witness: an OOV target that occurs in the source, scored by copy terms
\* only.
C8_Witness ==
    /\ AfterLLContrib
    /\ target_tokens.tokens[0][timestep] = oov_index
    /\ Sum(source_indices[0][timestep]) > 0
    /\ ll_locals.stable_copy_exp[0] > 0
    /\ ll_locals.stable_gen_exp[0] = 0

\* The decoder steps and the likelihood contributions made so far.
DecoderSteps == {k \in DOMAIN trace : trace[k].op = "decoder_step"}

LLContribs == {k \in DOMAIN trace : trace[k].op = "get_ll_contrib"}

\* C3: the selective weights passed to _decoder_step are all zero at timestep
\* 0 and, at timestep t >= 1, exactly those returned by _get_ll_contrib at
\* timestep t-1, which were computed from source_indices[:, t], the indices
\* of the token that is the decoder input at t.  A weight is non-zero only at
\* a position with copy_mask = 1 and source_indices = 1, and the weights of
\* one instance sum to at most 1.
C3_SelectiveRead ==
    \A k \in DecoderSteps :
        LET t == trace[k].timestep
            w == trace[k].selective_weights
        IN  /\ t = 0 => \A b \in DOMAIN w : \A j \in DOMAIN w[b] : w[b][j][1] = 0
            /\ t >= 1 =>
                 \E m \in LLContribs :
                    /\ m < k
                    /\ trace[m].timestep = t - 1
                    /\ w = trace[m].selective_weights
                    /\ trace[m].step_source_indices =
                          [b \in DOMAIN source_indices |-> source_indices[b][t]]
            /\ \A b \in DOMAIN w :
                 /\ trace[k].last_predictions[b] \in {target_tokens.tokens[b][t], copy_index}
                 /\ \A j \in DOMAIN w[b] :
                       w[b][j][1] # 0 =>
                          /\ t >= 1
                          /\ copy_mask[b][j] = 1
                          /\ source_indices[b][t][j] = 1
                 /\ \A j \in DOMAIN w[b] : w[b][j][2] = w[b][0][2] /\ w[b][j][2] > 0
                 /\ DOMAIN w[b] # {} => Sum(Numerators(w)[b]) <= w[b][0][2]

\* C3 witness: a decoder step after the first one that received a non-zero
\* selective weight, next to a zero one at an unmasked position.
C3_Witness ==
    \E k \in DecoderSteps :
        /\ trace[k].timestep >= 1
        /\ \E b \in DOMAIN trace[k].selective_weights :
              /\ \E j \in DOMAIN trace[k].selective_weights[b] :
                    trace[k].selective_weights[b][j][1] > 0
              /\ \E j \in DOMAIN trace[k].selective_weights[b] :
                    /\ trace[k].selective_weights[b][j][1] = 0
                    /\ copy_mask[b][j] = 1

\* C4: forward with target_tokens omitted completes and returns a dictionary
\* instead of ending in an error, and so does decode.
C4_InferenceReturns ==
    /\ (call = "forward" /\ target_arg = "None") => exception = ""
    /\ call = "decode" => exception = ""

\* Sum of the step log-likelihoods of instance b over the first n events.
RECURSIVE StepSum(_, _)
StepSum(b, n) ==
    IF n = 0 THEN EmptyBag
    ELSE IF trace[n].op = "get_ll_contrib"
         THEN StepSum(b, n - 1) (+) trace[n].step_log_likelihood[b]
         ELSE StepSum(b, n - 1)

C6_CopyMaskExcludesStartEnd ==
    TrainStarted =>
        \A b \in DOMAIN copy_mask : \A j \in DOMAIN copy_mask[b] :
            source_tokens[b][j + 1] \in {0, src_start_index, src_end_index}
                => copy_mask[b][j] = 0

\* C7: at every decoding step the decoder receives the copy token if the
\* input target token was copied from the source (its source_indices have a
\* non-zero sum) and the token's own index otherwise.
C7_CopyTokenSubstitution ==
    \A k \in DecoderSteps :
        LET t == trace[k].timestep
        IN  \A b \in DOMAIN trace[k].last_predictions :
                trace[k].last_predictions[b] =
                    IF Sum(source_indices[b][t]) # 0
                    THEN copy_index
                    ELSE target_tokens.tokens[b][t]

\* The events of the decoding loop.
LoopTrace == SubSeq(trace, 3, Len(trace))

\* C9: for a target of padded length T >= 1 the loop makes exactly T-1
\* decoder steps; step t = 0..T-2 is, in order, _decoder_step on target token
\* t, generation scoring, copy scoring and the likelihood contribution of
\* target token t+1.  Token 0 is never scored, token T-1 is never a decoder
\* input and no index outside 0..T-1 is read.
C9_LoopBounds ==
    TrainStarted =>
        LET T == target_sequence_length
        IN  /\ \A k \in DOMAIN LoopTrace :
                 LET e == LoopTrace[k]
                     t == (k - 1) \div 4
                     r == (k - 1) % 4
                 IN  /\ e.timestep = t
                     /\ 0 <= t /\ t <= T - 2
                     /\ r = 0 => /\ e.op = "decoder_step"
                                 /\ e.token = t
                                 /\ e.token # T - 1
                     /\ r = 1 => e.op = "get_generation_scores"
                     /\ r = 2 => e.op = "get_copy_scores"
                     /\ r = 3 => /\ e.op = "get_ll_contrib"
                                 /\ e.token = t + 1
                                 /\ e.token # 0
                                 /\ e.step_target_tokens =
                                       [b \in Idx(batch_size) |->
                                           target_tokens.tokens[b][t + 1]]
            /\ \A rd \in reads : rd[2] \in 0 .. (T - 1)
            /\ TrainReturned =>
                 /\ Cardinality(DecoderSteps) = T - 1
                 /\ Len(LoopTrace) = 4 * (T - 1)
                 /\ T >= 2 => \A t \in 0 .. (T - 1) : <<"target_tokens", t>> \in reads

\* C9 witness: a loop of three decoder steps that has returned.
C9_Witness ==
    /\ TrainReturned
    /\ target_sequence_length = 4
    /\ Cardinality(DecoderSteps) = 3

====
